---- MODULE Spec2Model ----
(***************************************************************************)
(* The voting / reputation subsystem of the Q&A application: the votes     *)
(* table with its constraints and row-level-security policies, the         *)
(* self-vote guard (BEFORE INSERT OR UPDATE), the three reputation         *)
(* triggers (AFTER INSERT / UPDATE / DELETE), the cascades of answer and   *)
(* question deletion, and the VoteButtons component that issues the        *)
(* writes.  Every statement is one transaction: an error raised by a       *)
(* trigger, a policy or a constraint leaves the database as it was.        *)
(*                                                                         *)
(* Statements are executed for an authenticated session whose auth.uid()   *)
(* is `uid`.  The trigger functions of the reputation migration are not    *)
(* SECURITY DEFINER, so the statements inside them run with the rights of  *)
(* that session and are subject to the policies of the tables they touch.  *)
(***************************************************************************)
EXTENDS Integers, Sequences, FiniteSets, TLC

NULL == "null"

\* The accounts (profiles rows); every user has a profile (handle_new_user).
Users == {"u1", "u2", "u3"}

\* The content rows that exist initially.
QIds == {"q1"}
AIds == {"a1"}

\* answers.question_id: the question an answer belongs to.
answer_question(a) == "q1"

\* Bound: the largest number of reputation_history rows a run may hold.
MaxLedger == 2

VARIABLES
  questions,           \* questions.author_id by id, NULL when the row is gone
  answers,             \* answers.author_id by id, NULL when the row is gone
  reputation,          \* profiles.reputation by user_id
  votes,               \* the rows of votes
  reputation_history,  \* the rows of reputation_history, in insertion order
  cast,                \* history: by votes id, the direction the row was cast with
  last,                \* history: the outcome of the last statement executed
                       \* ("cascade": a deletion of content that took votes;
                       \* "auth_required": a click refused without a statement)
  props,               \* VoteButtons props and signed-in user, per instance
  userVote,            \* VoteButtons state userVote, per instance
  fetch,               \* VoteButtons: progress of fetchUserVote, per instance
  loading,             \* VoteButtons: the write awaited, per instance
  tx,                  \* the statement in progress, per database session
  profiles,            \* profiles.username, bio and avatar_url by user_id
  comments             \* the rows of comments

vars == <<questions, answers, reputation, votes, reputation_history, cast,
          last, props, userVote, fetch, loading, tx, profiles, comments>>

dbvars == <<questions, answers, reputation, votes, reputation_history>>
uivars == <<props, userVote, fetch, loading>>
appvars == <<profiles, comments>>

(***************************************************************************)
(* Schema                                                                  *)
(***************************************************************************)

\* profiles.reputation INTEGER NOT NULL DEFAULT 1
reputation_default_zero == 1 - 1
reputation_default == 1

\* A candidate votes row, as a client may send it.
VoteRows ==
  [user_id : Users, question_id : QIds \cup {NULL},
   answer_id : AIds \cup {NULL}, is_upvote : BOOLEAN]

\* CONSTRAINT votes_must_have_target CHECK (...)
votes_must_have_target_off(r) == TRUE
votes_must_have_target(r) ==
  \/ (r.question_id # NULL /\ r.answer_id = NULL)
  \/ (r.question_id = NULL /\ r.answer_id # NULL)

\* SQL equality: never true when an operand is NULL.
sql_eq(a, b) == a # NULL /\ b # NULL /\ a = b

\* UNIQUE(user_id, question_id, answer_id): two rows conflict when all three
\* columns are equal; a NULL column is equal to nothing (NULLS DISTINCT).
votes_unique_conflict(rows, r) ==
  \E v \in rows : /\ sql_eq(v.user_id, r.user_id)
                  /\ sql_eq(v.question_id, r.question_id)
                  /\ sql_eq(v.answer_id, r.answer_id)

\* REFERENCES questions(id) / answers(id): a non-NULL reference has its row.
votes_fk_ok(qs, as, r) ==
  /\ r.question_id # NULL => qs[r.question_id] # NULL
  /\ r.answer_id # NULL => as[r.answer_id] # NULL

(***************************************************************************)
(* Row-level security policies                                             *)
(***************************************************************************)

\* "Users can update their own profile" FOR UPDATE USING (auth.uid() = user_id)
profiles_update_policy_off(uid, user_id) == TRUE
profiles_update_policy(uid, user_id) == uid = user_id

\* "Authenticated users can insert votes" WITH CHECK (auth.uid() = user_id)
votes_insert_policy(uid, r) == uid = r.user_id

\* "Users can update their own votes" FOR UPDATE USING (auth.uid() = user_id)
votes_update_policy(uid, r) == uid = r.user_id

\* "Users can delete their own votes" FOR DELETE USING (auth.uid() = user_id)
votes_delete_policy(uid, r) == uid = r.user_id

\* "Answer authors can delete their answers" USING (auth.uid() = author_id)
answers_delete_policy(uid, author_id) == uid = author_id

\* "Question authors can delete their questions" USING (auth.uid() = author_id)
questions_delete_policy(uid, author_id) == uid = author_id

(***************************************************************************)
(* Trigger functions.  db is the record of the tables: [questions,         *)
(* answers, reputation, votes, reputation_history].                        *)
(***************************************************************************)

GREATEST(a, b) == IF a >= b THEN a ELSE b

\* UPDATE profiles SET reputation = GREATEST(1, reputation + change)
\*   WHERE user_id = target_author_id
\* executed in the session of uid: the UPDATE policy of profiles hides every
\* row but the session's own, and a hidden row is skipped without an error.
profiles_add_no_floor(rep, uid, target_author_id, change) ==
  [u \in DOMAIN rep |->
     IF u = target_author_id /\ profiles_update_policy(uid, u)
       THEN rep[u] + change
       ELSE rep[u]]
profiles_add_no_where(rep, uid, target_author_id, change) ==
  [u \in DOMAIN rep |->
     IF profiles_update_policy(uid, u)
       THEN GREATEST(1, rep[u] + change)
       ELSE rep[u]]
profiles_add(rep, uid, target_author_id, change) ==
  [u \in DOMAIN rep |->
     IF u = target_author_id /\ profiles_update_policy(uid, u)
       THEN GREATEST(1, rep[u] + change)
       ELSE rep[u]]

\* SELECT author_id INTO ... FROM questions / answers WHERE id = ...: the
\* author of the row the vote points to, NULL when there is no such row.
\* The question is looked at first, the answer only when question_id is NULL.
vote_target_author(qs, as, r) ==
  IF r.question_id # NULL THEN qs[r.question_id]
  ELSE IF r.answer_id # NULL THEN as[r.answer_id]
  ELSE NULL

\* AFTER INSERT ON votes (new is the row NEW)
update_reputation_on_vote(db, uid, new) ==
  LET target_author_id == vote_target_author(db.questions, db.answers, new)
      reputation_change ==
        IF new.question_id # NULL
          THEN (IF new.is_upvote THEN 5 ELSE -2)
          ELSE (IF new.is_upvote THEN 10 ELSE -2)
  IN IF target_author_id # NULL
       THEN [db EXCEPT
               !.reputation =
                 profiles_add(@, uid, target_author_id, reputation_change),
               !.reputation_history = Append(@,
                 [user_id |-> target_author_id,
                  points |-> reputation_change,
                  reason |->
                    IF new.question_id # NULL
                      THEN (IF new.is_upvote THEN "Question upvoted"
                                             ELSE "Question downvoted")
                      ELSE (IF new.is_upvote THEN "Answer upvoted"
                                             ELSE "Answer downvoted"),
                  question_id |-> new.question_id,
                  answer_id |-> new.answer_id])]
       ELSE db

\* AFTER UPDATE ON votes (old, new are the rows OLD, NEW)
handle_vote_update_new_only(db, uid, old, new) ==
  LET target_author_id == vote_target_author(db.questions, db.answers, old)
      old_reputation_change ==
        IF old.question_id # NULL
          THEN (IF old.is_upvote THEN 5 ELSE -2)
          ELSE (IF old.is_upvote THEN 10 ELSE -2)
      new_reputation_change ==
        IF old.question_id # NULL
          THEN (IF new.is_upvote THEN 5 ELSE -2)
          ELSE (IF new.is_upvote THEN 10 ELSE -2)
  IN IF target_author_id # NULL
       THEN [db EXCEPT
               !.reputation =
                 profiles_add(@, uid, target_author_id,
                              new_reputation_change - old_reputation_change),
               !.reputation_history = Append(@,
                 [user_id |-> target_author_id,
                  points |-> new_reputation_change,
                  reason |-> IF new.question_id # NULL
                               THEN "Question vote changed"
                               ELSE "Answer vote changed",
                  question_id |-> new.question_id,
                  answer_id |-> new.answer_id])]
       ELSE db
handle_vote_update(db, uid, old, new) ==
  LET target_author_id == vote_target_author(db.questions, db.answers, old)
      old_reputation_change ==
        IF old.question_id # NULL
          THEN (IF old.is_upvote THEN 5 ELSE -2)
          ELSE (IF old.is_upvote THEN 10 ELSE -2)
      new_reputation_change ==
        IF old.question_id # NULL
          THEN (IF new.is_upvote THEN 5 ELSE -2)
          ELSE (IF new.is_upvote THEN 10 ELSE -2)
  IN IF target_author_id # NULL
       THEN [db EXCEPT
               !.reputation =
                 profiles_add(@, uid, target_author_id,
                              new_reputation_change - old_reputation_change),
               !.reputation_history = Append(@,
                 [user_id |-> target_author_id,
                  points |-> new_reputation_change - old_reputation_change,
                  reason |-> IF new.question_id # NULL
                               THEN "Question vote changed"
                               ELSE "Answer vote changed",
                  question_id |-> new.question_id,
                  answer_id |-> new.answer_id])]
       ELSE db

\* AFTER DELETE ON votes (old is the row OLD)
handle_vote_delete_unguarded(db, uid, old) ==
  LET target_author_id == vote_target_author(db.questions, db.answers, old)
      reputation_change ==
        IF old.question_id # NULL
          THEN (IF old.is_upvote THEN -5 ELSE 2)
          ELSE (IF old.is_upvote THEN -10 ELSE 2)
  IN [db EXCEPT
        !.reputation =
          profiles_add(@, uid, target_author_id, reputation_change),
        !.reputation_history = Append(@,
          [user_id |-> target_author_id,
           points |-> reputation_change,
           reason |-> IF old.question_id # NULL
                        THEN "Question vote removed"
                        ELSE "Answer vote removed",
           question_id |-> old.question_id,
           answer_id |-> old.answer_id])]
handle_vote_delete(db, uid, old) ==
  LET target_author_id == vote_target_author(db.questions, db.answers, old)
      reputation_change ==
        IF old.question_id # NULL
          THEN (IF old.is_upvote THEN -5 ELSE 2)
          ELSE (IF old.is_upvote THEN -10 ELSE 2)
  IN IF target_author_id # NULL
       THEN [db EXCEPT
               !.reputation =
                 profiles_add(@, uid, target_author_id, reputation_change),
               !.reputation_history = Append(@,
                 [user_id |-> target_author_id,
                  points |-> reputation_change,
                  reason |-> IF old.question_id # NULL
                               THEN "Question vote removed"
                               ELSE "Answer vote removed",
                  question_id |-> old.question_id,
                  answer_id |-> old.answer_id])]
       ELSE db

\* BEFORE INSERT OR UPDATE ON votes: TRUE when the function raises.  Both
\* references are looked at; a missing row gives a NULL author, and a NULL
\* compares equal to nothing.
prevent_self_voting_off(qs, as, new) == FALSE
prevent_self_voting_questions_only(qs, as, new) ==
  new.question_id # NULL /\ sql_eq(qs[new.question_id], new.user_id)
prevent_self_voting(qs, as, new) ==
  \/ (new.question_id # NULL /\ sql_eq(qs[new.question_id], new.user_id))
  \/ (new.answer_id # NULL /\ sql_eq(as[new.answer_id], new.user_id))

(***************************************************************************)
(* Statements on votes.  Each returns [result, db]: the outcome and the    *)
(* tables after it; any result other than "ok" is an error, which rolls    *)
(* the statement back (db is returned as it was).                          *)
(***************************************************************************)

\* The smallest id no row of the table has (stands for gen_random_uuid()).
fresh_id(rows) ==
  CHOOSE i \in 1..(Cardinality(rows) + 1) : \A v \in rows : v.id # i

stored(r, id) ==
  [id |-> id, user_id |-> r.user_id, question_id |-> r.question_id,
   answer_id |-> r.answer_id, is_upvote |-> r.is_upvote]

\* The checks a new or updated row passes before it is stored, in the order
\* the database makes them, given the outcome of the policy check.
row_error(rows, qs, as, policy_ok, new) ==
  IF prevent_self_voting(qs, as, new) THEN "self_vote"
  ELSE IF ~policy_ok THEN "rls"
  ELSE IF ~votes_must_have_target(new) THEN "check"
  ELSE IF votes_unique_conflict(rows, new) THEN "unique"
  ELSE IF ~votes_fk_ok(qs, as, new) THEN "fk"
  ELSE "ok"

\* INSERT INTO votes (user_id, question_id, answer_id, is_upvote) VALUES (new)
insert_vote(db, uid, new) ==
  LET err == row_error(db.votes, db.questions, db.answers,
                       votes_insert_policy(uid, new), new)
  IN IF err # "ok"
       THEN [result |-> err, db |-> db]
       ELSE [result |-> "ok",
             db |-> update_reputation_on_vote(
                      [db EXCEPT !.votes = @ \cup {stored(new, fresh_id(@))}],
                      uid, new)]

\* A column the SET clause of an UPDATE does not name.
KEEP == "keep"

\* The SET clauses a client may send: is_upvote alone, as submitVote does, or
\* is_upvote with both references.
SetClauses ==
  [question_id : {KEEP}, answer_id : {KEEP}, is_upvote : BOOLEAN] \cup
  [question_id : QIds \cup {NULL}, answer_id : AIds \cup {NULL},
   is_upvote : BOOLEAN]

apply_set(v, set) ==
  [v EXCEPT !.question_id = IF set.question_id = KEEP THEN @ ELSE set.question_id,
            !.answer_id = IF set.answer_id = KEEP THEN @ ELSE set.answer_id,
            !.is_upvote = set.is_upvote]

\* .eq(column, target): the rows a filter on a reference selects.  (The
\* filter .eq('user_id', user.id) that VoteButtons adds selects, among them,
\* the rows the policy of the statement shows to the session of that user.)
votes_where(rows, column, target) ==
  {v \in rows : sql_eq(v[column], target)}

\* The orders in which a statement may visit the rows it selects.
RowOrders(S) ==
  {ord \in [1..Cardinality(S) -> S] :
     \A i, j \in 1..Cardinality(S) : ord[i] = ord[j] => i = j}

\* The row phase of an UPDATE: each selected row in turn is replaced by its
\* new version, unless the guard, the policy or a constraint raises.
RECURSIVE update_rows(_, _, _, _, _, _, _)
update_rows(rows, qs, as, uid, ord, set, i) ==
  IF i > Len(ord) THEN [result |-> "ok", votes |-> rows]
  ELSE LET old == ord[i]
           new == apply_set(old, set)
           err == row_error(rows \ {old}, qs, as,
                            votes_update_policy(uid, new), new)
       IN IF err # "ok"
            THEN [result |-> err, votes |-> rows]
            ELSE update_rows((rows \ {old}) \cup {new}, qs, as, uid, ord, set,
                             i + 1)

\* The AFTER UPDATE triggers of the rows of the statement, in row order.
RECURSIVE after_update(_, _, _, _, _)
after_update(db, uid, ord, set, i) ==
  IF i > Len(ord) THEN db
  ELSE after_update(
         handle_vote_update(db, uid, ord[i], apply_set(ord[i], set)),
         uid, ord, set, i + 1)

\* UPDATE votes SET ... WHERE ...; ord lists the rows the filter selects and
\* the UPDATE policy shows to the session.
update_votes(db, uid, ord, set) ==
  LET r == update_rows(db.votes, db.questions, db.answers, uid, ord, set, 1)
  IN IF r.result # "ok"
       THEN [result |-> r.result, db |-> db]
       ELSE [result |-> "ok",
             db |-> after_update([db EXCEPT !.votes = r.votes],
                                 uid, ord, set, 1)]

\* The AFTER DELETE triggers of the rows of the statement, in row order.
RECURSIVE after_delete(_, _, _, _)
after_delete(db, uid, ord, i) ==
  IF i > Len(ord) THEN db
  ELSE after_delete(handle_vote_delete(db, uid, ord[i]), uid, ord, i + 1)

\* DELETE FROM votes WHERE ...; ord lists the rows the filter selects and the
\* DELETE policy shows to the session (or the rows a cascade removes).
delete_votes(db, uid, ord) ==
  [result |-> "ok",
   db |-> after_delete(
            [db EXCEPT !.votes = @ \ {ord[i] : i \in 1..Len(ord)}],
            uid, ord, 1)]

(***************************************************************************)
(* Deleting content.  The rows that reference the deleted row go with it   *)
(* (ON DELETE CASCADE): answers of a question, votes, reputation_history.  *)
(* The AFTER DELETE triggers of the cascaded votes run at the end of the   *)
(* statement, in the session of uid, when the content row is gone.         *)
(***************************************************************************)

votes_on_answers(rows, A) == {v \in rows : v.answer_id \in A}
votes_on_questions(rows, Q) == {v \in rows : v.question_id \in Q}

\* The tables the triggers of the cascaded rows see: the questions Q and the
\* answers A are deleted before the rows that reference them.
content_gone(db, Q, A) ==
  [db EXCEPT
     !.questions = [q \in DOMAIN @ |-> IF q \in Q THEN NULL ELSE @[q]],
     !.answers = [a \in DOMAIN @ |-> IF a \in A THEN NULL ELSE @[a]]]

\* The content rows gone, the votes on them deleted in the order ord, and the
\* reputation_history rows that reference them deleted.
cascade(db, uid, Q, A, ord) ==
  LET gone == content_gone(db, Q, A)
      voted == delete_votes(gone, uid, ord).db
  IN [voted EXCEPT !.reputation_history =
        SelectSeq(@, LAMBDA e : e.question_id \notin Q /\ e.answer_id \notin A)]

\* supabase.from('answers').delete().eq('id', a): a row the DELETE policy
\* hides from the session is not deleted, and that is no error.
delete_answer(db, uid, a, ord) ==
  IF db.answers[a] # NULL /\ answers_delete_policy(uid, db.answers[a])
    THEN [result |-> "ok", db |-> cascade(db, uid, {}, {a}, ord)]
    ELSE [result |-> "ok", db |-> db]

\* DELETE FROM questions WHERE id = q, with the answers of q.
delete_question(db, uid, q, ord) ==
  IF db.questions[q] # NULL /\ questions_delete_policy(uid, db.questions[q])
    THEN [result |-> "ok",
          db |-> cascade(db, uid, {q},
                         {a \in DOMAIN db.answers : answer_question(a) = q},
                         ord)]
    ELSE [result |-> "ok", db |-> db]

(***************************************************************************)
(* The state machine of the database: one action per statement a signed-in *)
(* client may send.                                                        *)
(***************************************************************************)

DB ==
  [questions |-> questions, answers |-> answers, reputation |-> reputation,
   votes |-> votes, reputation_history |-> reputation_history]

\* The tables after a statement; the run is cut where reputation_history
\* would exceed MaxLedger rows.
Commit(r) ==
  /\ Len(r.db.reputation_history) <= MaxLedger
  /\ questions' = r.db.questions
  /\ answers' = r.db.answers
  /\ reputation' = r.db.reputation
  /\ votes' = r.db.votes
  /\ reputation_history' = r.db.reputation_history

InitDB ==
  /\ questions = [q \in QIds |-> "u1"]
  /\ answers = [a \in AIds |-> "u2"]
  /\ reputation = [u \in Users |-> reputation_default]
  /\ votes = {}
  /\ reputation_history = <<>>
  /\ cast = [i \in {} |-> TRUE]
  /\ last = "none"
  /\ profiles = [u \in Users |-> [username |-> u, bio |-> NULL,
                                   avatar_url |-> NULL]]
  /\ comments = {}

NoUI == [c \in {} |-> NULL]

Init ==
  /\ InitDB
  /\ props = NoUI
  /\ userVote = NoUI
  /\ fetch = NoUI
  /\ loading = NoUI
  /\ tx = NoUI

InsertVote(uid, new) ==
  LET r == insert_vote(DB, uid, new)
  IN /\ Commit(r)
     /\ cast' = IF r.result = "ok"
                  THEN [i \in {v.id : v \in r.db.votes} |->
                          IF i \in DOMAIN cast THEN cast[i] ELSE new.is_upvote]
                  ELSE cast
     /\ last' = r.result
     /\ UNCHANGED <<uivars, tx, appvars>>

UpdateVote(uid, column, target, set) ==
  \E ord \in RowOrders({v \in votes_where(votes, column, target) :
                          votes_update_policy(uid, v)}) :
    LET r == update_votes(DB, uid, ord, set)
    IN /\ Commit(r)
       /\ last' = r.result
       /\ UNCHANGED <<cast, uivars, tx, appvars>>

DeleteVote(uid, column, target) ==
  \E ord \in RowOrders({v \in votes_where(votes, column, target) :
                          votes_delete_policy(uid, v)}) :
    LET r == delete_votes(DB, uid, ord)
    IN /\ Commit(r)
       /\ cast' = [i \in {v.id : v \in r.db.votes} |-> cast[i]]
       /\ last' = r.result
       /\ UNCHANGED <<uivars, tx, appvars>>

DeleteAnswer(uid, a) ==
  \E ord \in RowOrders(votes_on_answers(votes, {a})) :
    LET r == delete_answer(DB, uid, a, ord)
    IN /\ Commit(r)
       /\ cast' = [i \in {v.id : v \in r.db.votes} |-> cast[i]]
       /\ last' = IF r.db.votes # votes THEN "cascade" ELSE r.result
       /\ UNCHANGED <<uivars, tx, appvars>>

DeleteQuestion(uid, q) ==
  \E ord \in RowOrders(votes_on_questions(votes, {q}) \cup
                       votes_on_answers(votes,
                         {a \in AIds : answer_question(a) = q})) :
    LET r == delete_question(DB, uid, q, ord)
    IN /\ Commit(r)
       /\ cast' = [i \in {v.id : v \in r.db.votes} |-> cast[i]]
       /\ last' = IF r.db.votes # votes THEN "cascade" ELSE r.result
       /\ UNCHANGED <<uivars, tx, appvars>>

\* The filters of VoteButtons: .eq('question_id', id) or .eq('answer_id', id).
Filters ==
  [column : {"question_id"}, target : QIds] \cup
  [column : {"answer_id"}, target : AIds]

Next ==
  \/ \E uid \in Users, new \in VoteRows : InsertVote(uid, new)
  \/ \E uid \in Users, f \in Filters, set \in SetClauses :
        UpdateVote(uid, f.column, f.target, set)
  \/ \E uid \in Users, f \in Filters :
        DeleteVote(uid, f.column, f.target)
  \/ \E uid \in Users, a \in AIds : DeleteAnswer(uid, a)
  \/ \E uid \in Users, q \in QIds : DeleteQuestion(uid, q)

Spec == Init /\ [][Next]_vars

(***************************************************************************)
(* VoteButtons.  An instance is mounted on one question or answer, for the  *)
(* signed-in user or for a visitor who is signed out (user is null).       *)
(* fetchUserVote runs once, on mount, if (user); its query and             *)
(* the setUserVote that follows the await are two steps.  handleVote sends *)
(* one statement; what follows its await (setUserVote, or the catch) is a  *)
(* second step, and the buttons are disabled in between.                   *)
(***************************************************************************)

Comps == {"c1", "c2"}

\* userVote: true, false or null.
UP == "true"
DOWN == "false"
dir(is_upvote) == IF is_upvote THEN UP ELSE DOWN

\* targetType === 'question' ? 'question_id' : 'answer_id'
target_column(p) ==
  IF p.targetType = "question" THEN "question_id" ELSE "answer_id"

\* .eq('user_id', user.id).eq(column, targetId)
own_votes(rows, p) ==
  {v \in votes_where(rows, target_column(p), p.targetId) :
     sql_eq(v.user_id, p.user)}

\* useAuth(): the signed-in user, null when signed out.
AuthUsers == Users \cup {NULL}

\* The instances are two sessions of one user on the same question or answer.
InitUI ==
  /\ InitDB
  /\ \E p \in [user : AuthUsers, targetType : {"question"}, targetId : QIds] \cup
              [user : AuthUsers, targetType : {"answer"}, targetId : AIds] :
        props = [c \in Comps |-> p]
  /\ userVote = [c \in Comps |-> NULL]
  /\ fetch = [c \in Comps |-> "mounted"]
  /\ loading = [c \in Comps |-> "idle"]
  /\ tx = NoUI

\* The select of fetchUserVote: maybeSingle() gives the row when there is
\* exactly one, and null data otherwise (no row, or an error for several).
fetchUserVote(c) ==
  /\ props[c].user # NULL
  /\ fetch[c] = "mounted"
  /\ LET rows == own_votes(votes, props[c])
     IN fetch' = [fetch EXCEPT ![c] =
          IF Cardinality(rows) = 1
            THEN dir((CHOOSE v \in rows : TRUE).is_upvote)
            ELSE NULL]
  /\ UNCHANGED <<dbvars, cast, last, props, userVote, loading, tx, appvars>>

\* setUserVote(data ? data.is_upvote : null)
fetchUserVote_done(c) ==
  /\ fetch[c] \in {UP, DOWN, NULL}
  /\ userVote' = [userVote EXCEPT ![c] = fetch[c]]
  /\ fetch' = [fetch EXCEPT ![c] = "done"]
  /\ UNCHANGED <<dbvars, cast, last, props, loading, tx, appvars>>

\* removeVote, up to its await.
removeVote(c) ==
  \E ord \in RowOrders({v \in own_votes(votes, props[c]) :
                          votes_delete_policy(props[c].user, v)}) :
    LET r == delete_votes(DB, props[c].user, ord)
    IN /\ Commit(r)
       /\ cast' = [i \in {v.id : v \in r.db.votes} |-> cast[i]]
       /\ last' = r.result
       /\ loading' = [loading EXCEPT ![c] =
            IF r.result = "ok" THEN "set_null" ELSE "error"]
       /\ UNCHANGED <<props, userVote, fetch, tx, appvars>>

\* submitVote, up to its await: an update when userVote is not null, an
\* insert of voteData otherwise.
submitVote(c, isUpvote) ==
  \/ /\ userVote[c] # NULL
     /\ \E ord \in RowOrders({v \in own_votes(votes, props[c]) :
                               votes_update_policy(props[c].user, v)}) :
          LET r == update_votes(DB, props[c].user, ord,
                     [question_id |-> KEEP, answer_id |-> KEEP,
                      is_upvote |-> isUpvote])
          IN /\ Commit(r)
             /\ last' = r.result
             /\ loading' = [loading EXCEPT ![c] =
                  IF r.result = "ok" THEN "set_" \o dir(isUpvote) ELSE "error"]
             /\ UNCHANGED <<cast, props, userVote, fetch, tx, appvars>>
  \/ /\ userVote[c] = NULL
     /\ LET voteData ==
              [user_id |-> props[c].user,
               question_id |-> IF props[c].targetType = "question"
                                 THEN props[c].targetId ELSE NULL,
               answer_id |-> IF props[c].targetType = "question"
                               THEN NULL ELSE props[c].targetId,
               is_upvote |-> isUpvote]
            r == insert_vote(DB, props[c].user, voteData)
        IN /\ Commit(r)
           /\ cast' = IF r.result = "ok"
                        THEN [i \in {v.id : v \in r.db.votes} |->
                                IF i \in DOMAIN cast THEN cast[i] ELSE isUpvote]
                        ELSE cast
           /\ last' = r.result
           /\ loading' = [loading EXCEPT ![c] =
                IF r.result = "ok" THEN "set_" \o dir(isUpvote) ELSE "error"]
           /\ UNCHANGED <<props, userVote, fetch, tx, appvars>>

\* A click on a button (enabled while no write is awaited).  if (!user): the
\* toast "Authentication Required" and return.
handleVote_no_toggle(c, isUpvote) ==
  /\ loading[c] = "idle"
  /\ IF props[c].user = NULL
       THEN /\ last' = "auth_required"
            /\ UNCHANGED <<dbvars, cast, uivars, tx, appvars>>
       ELSE submitVote(c, isUpvote)
handleVote(c, isUpvote) ==
  /\ loading[c] = "idle"
  /\ IF props[c].user = NULL
       THEN /\ last' = "auth_required"
            /\ UNCHANGED <<dbvars, cast, uivars, tx, appvars>>
       ELSE IF userVote[c] = dir(isUpvote)
              THEN removeVote(c)
              ELSE submitVote(c, isUpvote)

\* After the await: setUserVote on success, the catch on an error; finally
\* setLoading(false).
handleVote_done_keep(c) ==
  /\ loading[c] # "idle"
  /\ userVote' = [userVote EXCEPT ![c] =
       CASE loading[c] = "set_true" -> UP
         [] loading[c] = "set_false" -> DOWN
         [] OTHER -> @]
  /\ loading' = [loading EXCEPT ![c] = "idle"]
  /\ UNCHANGED <<dbvars, cast, last, props, fetch, tx, appvars>>
handleVote_done(c) ==
  /\ loading[c] # "idle"
  /\ userVote' = [userVote EXCEPT ![c] =
       CASE loading[c] = "set_null" -> NULL
         [] loading[c] = "set_true" -> UP
         [] loading[c] = "set_false" -> DOWN
         [] OTHER -> @]
  /\ loading' = [loading EXCEPT ![c] = "idle"]
  /\ UNCHANGED <<dbvars, cast, last, props, fetch, tx, appvars>>

NextUI ==
  \/ \E c \in Comps : fetchUserVote(c)
  \/ \E c \in Comps : fetchUserVote_done(c)
  \/ \E c \in Comps, isUpvote \in BOOLEAN : handleVote(c, isUpvote)
  \/ \E c \in Comps : handleVote_done(c)

SpecUI == InitUI /\ [][NextUI]_vars

(***************************************************************************)
(* One session at a time.  The user opens the page in one session after    *)
(* the other: the earlier session (c2) does nothing more once the later    *)
(* one (c1) has begun, and in each session the buttons are clicked only    *)
(* when fetchUserVote has completed.                                       *)
(***************************************************************************)

\* The session of instance c is the one in use.
InUse(c) == c = "c1" \/ fetch["c1"] = "mounted"

SessionFetch(c) == InUse(c) /\ fetchUserVote(c)

SessionFetchDone(c) == InUse(c) /\ fetchUserVote_done(c)

SessionClick(c, isUpvote) ==
  /\ InUse(c)
  /\ props[c].user # NULL => fetch[c] = "done"
  /\ handleVote(c, isUpvote)

SessionClickDone(c) == InUse(c) /\ handleVote_done(c)

NextSession ==
  \/ \E c \in Comps : SessionFetch(c)
  \/ \E c \in Comps : SessionFetchDone(c)
  \/ \E c \in Comps, isUpvote \in BOOLEAN : SessionClick(c, isUpvote)
  \/ \E c \in Comps : SessionClickDone(c)

SpecSession == InitUI /\ [][NextSession]_vars

(***************************************************************************)
(* Concurrent sessions.  Each statement on votes is one transaction (READ   *)
(* COMMITTED): the BEFORE trigger and the write of each row, then the AFTER *)
(* trigger of each row (its UPDATE of profiles, then its INSERT into        *)
(* reputation_history), then the commit.  What a transaction wrote is seen  *)
(* by the other sessions when it commits; an error ends the transaction     *)
(* with nothing written.  An UPDATE of a profiles row locks the row until   *)
(* the commit, and a second UPDATE of that row waits and then works on the  *)
(* committed value.  The tables of the state are the committed ones.        *)
(***************************************************************************)

Sessions == {"s1", "s2"}

\* auth.uid() of each session: two voters.
session_uid == [s1 |-> "u1", s2 |-> "u3"]

\* The profiles rows a statement has updated, with their new reputation: none.
NoUpdate == [u \in {} |-> 1]

\* A session with no statement in progress; result is the outcome of its last.
IdleTx(result, steps) ==
  [pc |-> "idle", op |-> "none", rows |-> <<>>, i |-> 1,
   pending |-> NoUpdate, entries |-> <<>>,
   steps |-> steps, result |-> result]

\* The number of reputation_history rows the statements in progress may add.
tx_rows == LET n(s) == Len(tx[s].rows) IN n("s1") + n("s2")

\* A statement starts on the rows `rows`, pairs of OLD and NEW (an INSERT has
\* no OLD and a DELETE no NEW: the pair then holds the one row twice).
begin(s, op, rows) ==
  /\ tx[s].pc = "idle"
  /\ Len(reputation_history) + tx_rows + Len(rows) <= MaxLedger
  /\ tx' = [tx EXCEPT ![s] =
       [pc |-> IF rows = <<>> THEN "commit"
               ELSE IF op = "delete" THEN "write" ELSE "guard",
        op |-> op, rows |-> rows, i |-> 1,
        pending |-> NoUpdate, entries |-> <<>>,
        steps |-> <<>>, result |-> "none"]]
  /\ UNCHANGED <<dbvars, cast, last, uivars, appvars>>

\* supabase.from('votes').insert(voteData)
BeginInsert(s, new) ==
  begin(s, "insert", <<[old |-> new, new |-> new]>>)

\* supabase.from('votes').update({ is_upvote }).eq(column, target): the rows
\* are those the filter selects and the UPDATE policy shows, as committed.
BeginUpdate(s, column, target, is_upvote) ==
  \E ord \in RowOrders({v \in votes_where(votes, column, target) :
                          votes_update_policy(session_uid[s], v)}) :
    begin(s, "update",
          [j \in 1..Len(ord) |->
             [old |-> ord[j],
              new |-> apply_set(ord[j],
                        [question_id |-> KEEP, answer_id |-> KEEP,
                         is_upvote |-> is_upvote])]])

\* supabase.from('votes').delete().eq(column, target)
BeginDelete(s, column, target) ==
  \E ord \in RowOrders({v \in votes_where(votes, column, target) :
                          votes_delete_policy(session_uid[s], v)}) :
    begin(s, "delete",
          [j \in 1..Len(ord) |-> [old |-> ord[j], new |-> ord[j]]])

\* The statement ends with the error err: nothing it wrote remains.  (steps
\* is the history of what the statement did: "guard" for the BEFORE trigger
\* of a row, "write" or "delete" for the row, "adjust" and "append" for the
\* two statements of its AFTER trigger, and the error that ended it.)
abort(s, err) ==
  /\ tx' = [tx EXCEPT ![s] = IdleTx(err, Append(tx[s].steps, err))]
  /\ last' = err
  /\ UNCHANGED <<dbvars, cast, uivars, appvars>>

\* What follows the guard of a row: the exception ends the statement.
after_guard_ignored(raised) == "write"
after_guard(raised) == IF raised THEN "raise" ELSE "write"

\* prevent_self_voting_trigger BEFORE INSERT OR UPDATE, for row i.
BeforeRow(s) ==
  /\ tx[s].pc = "guard"
  /\ LET new == tx[s].rows[tx[s].i].new
         to == after_guard(prevent_self_voting(questions, answers, new))
         raised == prevent_self_voting(questions, answers, new)
     IN IF to = "raise"
          THEN abort(s, "self_vote")
          ELSE /\ tx' = [tx EXCEPT
                    ![s].pc = to,
                    ![s].steps = Append(@, IF raised THEN "self_vote"
                                                     ELSE "guard")]
               /\ UNCHANGED <<dbvars, cast, last, uivars, appvars>>

\* The votes table once the rows ks of a statement are written: an inserted
\* row gets its id.
written(rows, op, ks) ==
  CASE op = "insert" ->
         rows \cup {stored(ks[j].new, fresh_id(rows)) : j \in 1..Len(ks)}
    [] op = "update" ->
         (rows \ {ks[j].old : j \in 1..Len(ks)})
           \cup {ks[j].new : j \in 1..Len(ks)}
    [] OTHER -> rows \ {ks[j].old : j \in 1..Len(ks)}

\* The votes table as the statement of s sees it: the committed rows with
\* its own writes of the rows before row i.
votes_view(s) ==
  written(votes, tx[s].op, SubSeq(tx[s].rows, 1, tx[s].i - 1))

\* The write of row i: policy and constraints, then the row is written.
WriteRow(s) ==
  /\ tx[s].pc = "write"
  /\ LET k == tx[s].rows[tx[s].i]
         uid == session_uid[s]
         err == CASE tx[s].op = "insert" ->
                       row_error(votes_view(s), questions, answers,
                                 votes_insert_policy(uid, k.new), k.new)
                  [] tx[s].op = "update" ->
                       row_error(votes_view(s) \ {k.old}, questions, answers,
                                 votes_update_policy(uid, k.new), k.new)
                  [] OTHER -> "ok"
         more == tx[s].i < Len(tx[s].rows)
     IN IF err \notin {"ok", "self_vote"}
          THEN abort(s, err)
          ELSE /\ tx' = [tx EXCEPT
                  ![s].steps = Append(@, IF tx[s].op = "delete"
                                           THEN "delete" ELSE "write"),
                  ![s].i = IF more THEN @ + 1 ELSE 1,
                  ![s].pc = IF ~more THEN "adjust"
                            ELSE IF tx[s].op = "delete" THEN "write"
                            ELSE "guard"]
               /\ UNCHANGED <<dbvars, cast, last, uivars, appvars>>

\* The row whose references the AFTER trigger resolves the author from: NEW
\* in update_reputation_on_vote, OLD in handle_vote_update and _delete.
trigger_row(op, k) == IF op = "insert" THEN k.new ELSE k.old

\* The AFTER trigger of the statement's kind, run on the tables db.
after_row(db, uid, op, k) ==
  CASE op = "insert" -> update_reputation_on_vote(db, uid, k.new)
    [] op = "update" -> handle_vote_update(db, uid, k.old, k.new)
    [] op = "delete" -> handle_vote_delete(db, uid, k.old)

\* The tables as the AFTER trigger of s reads them: profiles rows it has
\* updated itself, and otherwise the committed ones.
trigger_view(s) ==
  [questions |-> questions, answers |-> answers,
   reputation |-> [u \in Users |-> IF u \in DOMAIN tx[s].pending
                                     THEN tx[s].pending[u] ELSE reputation[u]],
   votes |-> votes_view(s), reputation_history |-> <<>>]

\* The profiles rows a session holds the row lock of.
locked_by(s) == DOMAIN tx[s].pending

\* AFTER trigger of row i, first statement: UPDATE profiles SET reputation =
\* GREATEST(1, reputation + change) WHERE user_id = target_author_id.  With
\* no author the trigger does nothing and the next row is taken.
UpdateProfiles(s) ==
  /\ tx[s].pc = "adjust"
  /\ LET k == tx[s].rows[tx[s].i]
         uid == session_uid[s]
         target == vote_target_author(questions, answers,
                                      trigger_row(tx[s].op, k))
         after == after_row(trigger_view(s), uid, tx[s].op, k)
         more == tx[s].i < Len(tx[s].rows)
     IN IF target = NULL
          THEN tx' = [tx EXCEPT ![s].i = IF more THEN @ + 1 ELSE @,
                                ![s].pc = IF more THEN "adjust" ELSE "commit"]
          ELSE IF profiles_update_policy(uid, target)
            THEN /\ \A t \in Sessions \ {s} : target \notin locked_by(t)
                 /\ tx' = [tx EXCEPT
                      ![s].pending =
                        [u \in DOMAIN @ \cup {target} |->
                           after.reputation[u]],
                      ![s].steps = Append(@, "adjust"),
                      ![s].pc = "append"]
            ELSE tx' = [tx EXCEPT ![s].steps = Append(@, "adjust"),
                                  ![s].pc = "append"]
  /\ UNCHANGED <<dbvars, cast, last, uivars, appvars>>

\* AFTER trigger of row i, second statement: INSERT INTO reputation_history.
InsertHistory(s) ==
  /\ tx[s].pc = "append"
  /\ LET k == tx[s].rows[tx[s].i]
         after == after_row(trigger_view(s), session_uid[s], tx[s].op, k)
         more == tx[s].i < Len(tx[s].rows)
     IN tx' = [tx EXCEPT
          ![s].entries = Append(@, after.reputation_history[1]),
          ![s].steps = Append(@, "append"),
          ![s].i = IF more THEN @ + 1 ELSE @,
          ![s].pc = IF more THEN "adjust" ELSE "commit"]
  /\ UNCHANGED <<dbvars, cast, last, uivars, appvars>>

\* COMMIT: the rows written, the profiles rows updated and the
\* reputation_history rows inserted become the committed ones.
CommitTx(s) ==
  /\ tx[s].pc = "commit"
  /\ votes' = written(votes, tx[s].op, tx[s].rows)
  /\ reputation' = [u \in Users |-> IF u \in DOMAIN tx[s].pending
                                      THEN tx[s].pending[u] ELSE reputation[u]]
  /\ reputation_history' = reputation_history \o tx[s].entries
  /\ cast' = [i \in {v.id : v \in votes'} |->
                IF i \in DOMAIN cast THEN cast[i]
                ELSE tx[s].rows[1].new.is_upvote]
  /\ last' = "ok"
  /\ tx' = [tx EXCEPT ![s] = IdleTx("ok", tx[s].steps)]
  /\ UNCHANGED <<questions, answers, uivars, appvars>>

\* The rows voteData of a signed-in client can be.
VoteData(uid) ==
  {r \in VoteRows : r.user_id = uid /\ votes_must_have_target(r)}

InitTx ==
  /\ InitDB
  /\ props = NoUI
  /\ userVote = NoUI
  /\ fetch = NoUI
  /\ loading = NoUI
  /\ tx = [s \in Sessions |-> IdleTx("none", <<>>)]

NextTx ==
  \/ \E s \in Sessions :
        \E new \in VoteData(session_uid[s]) : BeginInsert(s, new)
  \/ \E s \in Sessions, f \in Filters, b \in BOOLEAN :
        BeginUpdate(s, f.column, f.target, b)
  \/ \E s \in Sessions, f \in Filters : BeginDelete(s, f.column, f.target)
  \/ \E s \in Sessions : BeforeRow(s)
  \/ \E s \in Sessions : WriteRow(s)
  \/ \E s \in Sessions : UpdateProfiles(s)
  \/ \E s \in Sessions : InsertHistory(s)
  \/ \E s \in Sessions : CommitTx(s)

SpecTx == InitTx /\ [][NextTx]_vars

(***************************************************************************)
(* The other writes of the application: the profile form, and posting a    *)
(* question, an answer or a comment.  None of these tables has a trigger   *)
(* that writes profiles.                                                   *)
(***************************************************************************)

\* Bound: the largest number of comments rows a run may hold.
MaxComments == 1

\* What the profile form can hold (a text field may be left empty).
FormData ==
  [username : {"new"}, bio : {"", "bio"}, avatar_url : {"", "url"}]

\* value.trim() || null
or_null(text) == IF text = "" THEN NULL ELSE text

\* EditProfileDialog.handleSubmit: the columns it passes to updateProfile.
handleSubmit_whole_row(formData) ==
  [username |-> formData.username, bio |-> or_null(formData.bio),
   avatar_url |-> or_null(formData.avatar_url), reputation |-> 0]
handleSubmit(formData) ==
  [username |-> formData.username, bio |-> or_null(formData.bio),
   avatar_url |-> or_null(formData.avatar_url)]

\* The profiles row of user u.
profile_row(u) ==
  [username |-> profiles[u].username, bio |-> profiles[u].bio,
   avatar_url |-> profiles[u].avatar_url, reputation |-> reputation[u]]

\* updateProfile(updates): UPDATE profiles SET updates WHERE user_id = uid.
\* The row is the session's own, which the UPDATE policy shows; username is
\* UNIQUE.  Returns the outcome and the row after the statement.
updateProfile(uid, updates) ==
  LET row == profile_row(uid)
      new == [c \in DOMAIN row |->
                IF c \in DOMAIN updates THEN updates[c] ELSE row[c]]
  IN IF ~profiles_update_policy(uid, uid) THEN [result |-> "rls", row |-> row]
     ELSE IF \E u \in Users \ {uid} : profiles[u].username = new.username
       THEN [result |-> "unique", row |-> row]
     ELSE [result |-> "ok", row |-> new]

\* The profile form is submitted by the signed-in user uid.
EditProfile(uid, formData) ==
  LET r == updateProfile(uid, handleSubmit(formData))
  IN /\ profiles' = [profiles EXCEPT ![uid] =
          [username |-> r.row.username, bio |-> r.row.bio,
           avatar_url |-> r.row.avatar_url]]
     /\ reputation' = [reputation EXCEPT ![uid] = r.row.reputation]
     /\ last' = r.result
     /\ UNCHANGED <<questions, answers, votes, reputation_history, cast,
                    comments, uivars, tx>>

\* AskQuestion: insert({ title, description, author_id: user.id }); q is the
\* id the new row gets.
PostQuestion(uid, q) ==
  /\ questions[q] = NULL
  /\ questions' = [questions EXCEPT ![q] = uid]
  /\ last' = "ok"
  /\ UNCHANGED <<answers, reputation, votes, reputation_history, cast,
                 appvars, uivars, tx>>

\* QuestionDetail: insert({ content, question_id, author_id: user.id }) into
\* answers; a is the id the new row gets.
PostAnswer(uid, a) ==
  /\ answers[a] = NULL
  /\ IF questions[answer_question(a)] = NULL
       THEN last' = "fk" /\ answers' = answers
       ELSE last' = "ok" /\ answers' = [answers EXCEPT ![a] = uid]
  /\ UNCHANGED <<questions, reputation, votes, reputation_history, cast,
                 appvars, uivars, tx>>

\* comments_must_have_parent (answer_id XOR parent_comment_id) and
\* comments_target_check (question_id XOR answer_id): both are in force.
comments_checks(r) ==
  /\ (r.answer_id # NULL) # (r.parent_comment_id # NULL)
  /\ (r.question_id # NULL) # (r.answer_id # NULL)

\* CommentSection: insert(commentData) into comments.
PostComment(uid, column, target) ==
  LET commentData ==
        [author_id |-> uid,
         question_id |-> IF column = "question_id" THEN target ELSE NULL,
         answer_id |-> IF column = "answer_id" THEN target ELSE NULL,
         parent_comment_id |-> NULL]
      err == IF ~comments_checks(commentData) THEN "check"
             ELSE IF ~votes_fk_ok(questions, answers, commentData) THEN "fk"
             ELSE "ok"
  IN /\ Cardinality(comments) < MaxComments
     /\ comments' = IF err = "ok" THEN comments \cup {commentData}
                                  ELSE comments
     /\ last' = err
     /\ UNCHANGED <<dbvars, cast, profiles, uivars, tx>>

\* The site before anything is posted.
InitApp ==
  /\ questions = [q \in QIds |-> NULL]
  /\ answers = [a \in AIds |-> NULL]
  /\ reputation = [u \in Users |-> reputation_default]
  /\ votes = {}
  /\ reputation_history = <<>>
  /\ cast = [i \in {} |-> TRUE]
  /\ last = "none"
  /\ profiles = [u \in Users |-> [username |-> u, bio |-> NULL,
                                   avatar_url |-> NULL]]
  /\ comments = {}
  /\ props = NoUI
  /\ userVote = NoUI
  /\ fetch = NoUI
  /\ loading = NoUI
  /\ tx = NoUI

NextApp ==
  \/ \E uid \in Users, formData \in FormData : EditProfile(uid, formData)
  \/ \E uid \in Users, q \in QIds : PostQuestion(uid, q)
  \/ \E uid \in Users, a \in AIds : PostAnswer(uid, a)
  \/ \E uid \in Users, f \in Filters : PostComment(uid, f.column, f.target)

SpecApp == InitApp /\ [][NextApp]_vars

(***************************************************************************)
(* get_vote_counts: the aggregation the pages call through rpc.            *)
(***************************************************************************)

\* SUM(CASE WHEN is_upvote THEN 1 ELSE 0 END) (upvote TRUE) and SUM(CASE WHEN
\* NOT is_upvote THEN 1 ELSE 0 END) (upvote FALSE) over the rows of sequence
\* ord, in scan order, with COALESCE(..., 0) for the NULL that no row gives.
RECURSIVE sum_case(_, _)
sum_case(ord, upvote) ==
  IF ord = <<>> THEN 0
  ELSE (IF Head(ord).is_upvote = upvote THEN 1 ELSE 0)
         + sum_case(Tail(ord), upvote)

\* The rows of the scan ord that WHERE column = target_id keeps.
scan_where(ord, column, target_id) ==
  SelectSeq(ord, LAMBDA v : sql_eq(v[column], target_id))

\* get_vote_counts(target_type, target_id) on the votes rows in scan order
\* ord: the result table, one row for 'question' and 'answer', none for any
\* other target_type.
get_vote_counts_question_id(ord, target_type, target_id) ==
  IF target_type \in {"question", "answer"}
    THEN LET rows == scan_where(ord, "question_id", target_id)
         IN <<[upvotes |-> sum_case(rows, TRUE),
               downvotes |-> sum_case(rows, FALSE)]>>
  ELSE <<>>
get_vote_counts(ord, target_type, target_id) ==
  IF target_type = "question"
    THEN LET rows == scan_where(ord, "question_id", target_id)
         IN <<[upvotes |-> sum_case(rows, TRUE),
               downvotes |-> sum_case(rows, FALSE)]>>
  ELSE IF target_type = "answer"
    THEN LET rows == scan_where(ord, "answer_id", target_id)
         IN <<[upvotes |-> sum_case(rows, TRUE),
               downvotes |-> sum_case(rows, FALSE)]>>
  ELSE <<>>

(***************************************************************************)
(* Properties                                                              *)
(***************************************************************************)

Max(a, b) == IF a >= b THEN a ELSE b

\* The points of a vote by content kind and direction, as specified.
pointsTable ==
  [question |-> [up |-> 5, down |-> -2], answer |-> [up |-> 10, down |-> -2]]

kind(v) == IF v.question_id # NULL THEN "question" ELSE "answer"
direction(is_upvote) == IF is_upvote THEN "up" ELSE "down"
points(v) == pointsTable[kind(v)][direction(v.is_upvote)]

\* The author of the one content item a well-formed vote targets.
content_author(v) ==
  IF v.question_id # NULL THEN questions[v.question_id]
                          ELSE answers[v.answer_id]

\* The voter is the author of the question or of the answer the row targets.
IsSelfVote(v) ==
  \/ (v.question_id # NULL /\ questions[v.question_id] = v.user_id)
  \/ (v.answer_id # NULL /\ answers[v.answer_id] = v.user_id)

\* The row targets a question and no answer, or an answer and no question.
TargetsOne(v) == (v.question_id = NULL) # (v.answer_id = NULL)

\* The rows an UPDATE or DELETE of the session uid with filter f acts on.
Visible(uid, f) ==
  {v \in votes_where(votes, f.column, f.target) : votes_update_policy(uid, v)}

\* The SET clause of submitVote.
Flip(b) == [question_id |-> KEEP, answer_id |-> KEEP, is_upvote |-> b]

\* h is the ledger g with exactly one entry appended, for account a with points p.
AppendsOne(g, h, a, p) ==
  /\ Len(h) = Len(g) + 1
  /\ SubSeq(h, 1, Len(g)) = g
  /\ h[Len(h)].user_id = a
  /\ h[Len(h)].points = p

\* C1: whatever votes are cast, flipped and retracted, every account's
\* reputation is at least 1.
C1_ScoreAtLeastOne == \A u \in Users : reputation[u] >= 1

\* A downvote is held on content of an author whose reputation is 1.
C1_Witness ==
  \E v \in votes :
    ~v.is_upvote /\ TargetsOne(v) /\ reputation[content_author(v)] = 1

\* C2: a successful insert of a fresh vote sets the author's reputation to
\* max(1, reputation + pointsTable[kind][direction]) and appends exactly one
\* ledger entry for the author with those points.
C2_FreshVote ==
  [][\A uid \in Users, new \in VoteRows :
       (InsertVote(uid, new) /\ last' = "ok") =>
         /\ reputation'[content_author(new)] =
              Max(1, reputation[content_author(new)] + points(new))
         /\ AppendsOne(reputation_history, reputation_history',
                       content_author(new), points(new))]_vars

\* C3: flipping the direction of an existing vote sets the author's
\* reputation to max(1, reputation + new points - old points) and appends
\* exactly one ledger entry with the net points.
C3_Flip ==
  [][\A uid \in Users, f \in Filters, b \in BOOLEAN :
       \A v \in Visible(uid, f) :
         (/\ Visible(uid, f) = {v}
          /\ v.is_upvote # b
          /\ UpdateVote(uid, f.column, f.target, Flip(b))
          /\ last' = "ok") =>
           LET net == pointsTable[kind(v)][direction(b)] - points(v)
           IN /\ reputation'[content_author(v)] =
                   Max(1, reputation[content_author(v)] + net)
              /\ AppendsOne(reputation_history, reputation_history',
                            content_author(v), net)]_vars

\* C4: retracting a vote adjusts the author's reputation by the negation of
\* the points applied when the vote was cast, floored at 1, and appends
\* exactly one ledger entry.
C4_Retract ==
  [][\A uid \in Users, f \in Filters :
       \A v \in Visible(uid, f) :
         (/\ Visible(uid, f) = {v}
          /\ DeleteVote(uid, f.column, f.target)
          /\ last' = "ok") =>
           LET applied == pointsTable[kind(v)][direction(cast[v.id])]
           IN /\ reputation'[content_author(v)] =
                   Max(1, reputation[content_author(v)] - applied)
              /\ Len(reputation_history') = Len(reputation_history) + 1]_vars

\* C5: an insert or an update whose row has the voter as the author of the
\* question or answer it targets is rejected by the guard, and the votes,
\* the reputations and the ledger are left as they were.
C5_SelfVoteRejected ==
  /\ \A uid \in Users, new \in VoteRows :
       IsSelfVote(new) =>
         LET r == insert_vote(DB, uid, new)
         IN r.result = "self_vote" /\ r.db = DB
  /\ \A uid \in Users, f \in Filters, set \in SetClauses :
       \A ord \in RowOrders(Visible(uid, f)) :
         (\E i \in 1..Len(ord) : IsSelfVote(apply_set(ord[i], set))) =>
           LET r == update_votes(DB, uid, ord, set)
           IN r.result = "self_vote" /\ r.db = DB

\* The guard has just rejected a statement while a vote is held.
C5_Witness == last = "self_vote" /\ votes # {}

\* C6: at most one vote row exists per voter and content item.
C6_OneVotePerVoterAndItem ==
  \A v, w \in votes :
    (v.user_id = w.user_id /\ v.question_id = w.question_id
       /\ v.answer_id = w.answer_id) => v.id = w.id

\* C7: a successful vote write appends exactly one ledger entry whose points
\* are the change it made to the author's reputation.
C7_PointsAreNetEffect ==
  [][/\ \A uid \in Users, new \in VoteRows :
          (InsertVote(uid, new) /\ last' = "ok") =>
            AppendsOne(reputation_history, reputation_history',
                       content_author(new),
                       reputation'[content_author(new)]
                         - reputation[content_author(new)])
     /\ \A uid \in Users, f \in Filters :
          \A v \in Visible(uid, f) :
            (Visible(uid, f) = {v} /\ DeleteVote(uid, f.column, f.target)
               /\ last' = "ok") =>
              AppendsOne(reputation_history, reputation_history',
                         content_author(v),
                         reputation'[content_author(v)]
                           - reputation[content_author(v)])]_vars

\* C8: a ledger entry, once written, stays as it is in every later state.
C8_LedgerAppendOnly ==
  [][/\ Len(reputation_history') >= Len(reputation_history)
     /\ SubSeq(reputation_history', 1, Len(reputation_history))
          = reputation_history]_vars

\* C9: no vote row has the author of its content as its voter.
C9_NoSelfVoteRow == \A v \in votes : ~IsSelfVote(v)

\* Both voters of a question hold a vote on it.
C9_Witness ==
  \E v, w \in votes :
    v.user_id # w.user_id /\ v.question_id = w.question_id
      /\ v.question_id # NULL

\* C10: a vote write with both references set, or with neither, is rejected
\* and changes no reputation and no ledger; every stored vote targets
\* exactly one content item.
C10_ExactlyOneTarget ==
  /\ \A v \in votes : TargetsOne(v)
  /\ \A uid \in Users, new \in VoteRows :
       ~TargetsOne(new) =>
         LET r == insert_vote(DB, uid, new)
         IN r.result # "ok" /\ r.db = DB
  /\ \A uid \in Users, f \in Filters, set \in SetClauses :
       \A ord \in RowOrders(Visible(uid, f)) :
         (\E i \in 1..Len(ord) : ~TargetsOne(apply_set(ord[i], set))) =>
           LET r == update_votes(DB, uid, ord, set)
           IN r.result # "ok" /\ r.db = DB

\* The CHECK constraint has just rejected a write while a vote is held.
C10_Witness == last = "check" /\ votes # {}

\* A vote row of voter u on answer a.
answer_vote(u, a, is_upvote) ==
  [user_id |-> u, question_id |-> NULL, answer_id |-> a,
   is_upvote |-> is_upvote]

\* The entries of ledger h after its first n, for account a.
entries_since(h, n, a) ==
  SelectSeq(SubSeq(h, n + 1, Len(h)), LAMBDA e : e.user_id = a)

\* C11: for an answer whose author has reputation 1 and on which voters A
\* and B hold no vote: A's upvote gives the author 11 and the entry (+10,
\* "Answer upvoted"); B's downvote then gives 9 and the entry (-2); A's
\* retraction then gives max(1, 9 - 10) = 1 and the entry (-10, "Answer vote
\* removed"); the three entries are all the ledger gained for the author.
C11_Scenario ==
  \A a \in AIds, A \in Users, B \in Users :
    (/\ answers[a] # NULL
     /\ reputation[answers[a]] = 1
     /\ A # B /\ A # answers[a] /\ B # answers[a]
     /\ \A v \in votes_on_answers(votes, {a}) : v.user_id \notin {A, B}) =>
      LET author == answers[a]
          n == Len(reputation_history)
          s1 == insert_vote(DB, A, answer_vote(A, a, TRUE))
          s2 == insert_vote(s1.db, B, answer_vote(B, a, FALSE))
          held == {v \in s2.db.votes : v.user_id = A /\ v.answer_id = a}
          s3 == delete_votes(s2.db, A, CHOOSE ord \in RowOrders(held) : TRUE)
      IN /\ s1.result = "ok"
         /\ s1.db.reputation[author] = 11
         /\ AppendsOne(reputation_history, s1.db.reputation_history, author, 10)
         /\ s1.db.reputation_history[n + 1].reason = "Answer upvoted"
         /\ s2.result = "ok"
         /\ s2.db.reputation[author] = 9
         /\ AppendsOne(s1.db.reputation_history, s2.db.reputation_history,
                       author, -2)
         /\ s3.result = "ok"
         /\ s3.db.reputation[author] = 1
         /\ AppendsOne(s2.db.reputation_history, s3.db.reputation_history,
                       author, -10)
         /\ s3.db.reputation_history[n + 3].reason = "Answer vote removed"
         /\ Len(entries_since(s3.db.reputation_history, n, author)) = 3

\* The row of votes table S with id i, as a set (empty when there is none).
row_of(S, i) == {v \in S : v.id = i}

\* The table value of the vote with id i in S: "absent" is worth 0.
tableValue(S, i) ==
  IF row_of(S, i) = {} THEN 0 ELSE points(CHOOSE v \in row_of(S, i) : TRUE)

\* The ids of the votes whose (direction, existence) state differs in S and T.
changed_votes(S, T) ==
  {i \in {v.id : v \in S \cup T} : row_of(S, i) # row_of(T, i)}

\* C12: a vote write (content untouched) appends as many ledger entries as
\* votes whose (direction, existence) state it changed, and when it changed
\* one vote it set the author's reputation to max(1, reputation +
\* tableValue(new state) - tableValue(old state)).
C12_OneEntryPerStateChange ==
  [][(questions' = questions /\ answers' = answers) =>
       LET changed == changed_votes(votes, votes')
       IN /\ Len(reputation_history') =
               Len(reputation_history) + Cardinality(changed)
          /\ \A i \in changed :
               Cardinality(changed) = 1 =>
                 LET v == CHOOSE w \in row_of(votes, i) \cup row_of(votes', i) :
                            TRUE
                     delta == tableValue(votes', i) - tableValue(votes, i)
                 IN reputation'[content_author(v)] =
                      Max(1, reputation[content_author(v)] + delta)]_vars

\* The reputations after the adjustments of the ledger entries es are made
\* one after the other, each floored at 1.
RECURSIVE Applied(_, _)
Applied(rep, es) ==
  IF es = <<>> THEN rep
  ELSE Applied([rep EXCEPT ![es[1].user_id] = Max(1, @ + es[1].points)],
               Tail(es))

\* The authors whose content the statement in progress of session s votes on.
tx_authors(s) ==
  {vote_target_author(questions, answers, trigger_row(tx[s].op, tx[s].rows[j])) :
     j \in 1..Len(tx[s].rows)}

\* Sessions s and t have statements in progress on content of one author.
Concurrent(s, t) ==
  /\ s # t
  /\ tx[s].pc # "idle" /\ tx[t].pc # "idle"
  /\ tx_authors(s) \cap tx_authors(t) # {}

\* C13: when a vote write commits while another voter's write on content of
\* the same author is in progress, its adjustments are made to the score as
\* committed, so the score after both is that of the two adjustments made
\* one after the other.
C13_NoLostAdjustment ==
  [][\A s \in Sessions :
       (CommitTx(s) /\ \E t \in Sessions : Concurrent(s, t)) =>
         reputation' = Applied(reputation, tx[s].entries)]_vars

\* Bound: the largest starting reputation the order of two votes is tried on.
MaxScore == 2

\* A vote row of voter u on question q.
question_vote(u, q, is_upvote) ==
  [user_id |-> u, question_id |-> q, answer_id |-> NULL,
   is_upvote |-> is_upvote]

\* The votes a client can cast on the content that exists.
FreshVotes ==
  {question_vote(u, q, b) : u \in Users, q \in {x \in QIds : questions[x] # NULL},
                            b \in BOOLEAN} \cup
  {answer_vote(u, a, b) : u \in Users, a \in {x \in AIds : answers[x] # NULL},
                          b \in BOOLEAN}

\* Sequences g and h hold the same entries the same number of times.
SameEntries(g, h) ==
  /\ Len(g) = Len(h)
  /\ \A i \in DOMAIN g :
       Cardinality({j \in DOMAIN g : g[j] = g[i]}) =
         Cardinality({j \in DOMAIN h : h[j] = g[i]})

\* The tables with the reputation of account a set to s.
with_score(db, a, s) == [db EXCEPT !.reputation[a] = s]

appended(g, h) == SubSeq(h, Len(g) + 1, Len(h))

\* C15: the committed tables change only when a statement commits, and then
\* all at once: the rows the statement wrote, one ledger entry for each of
\* them (the author resolves: no content is deleted here), and the score
\* adjustments of those entries; a statement that fails leaves the committed
\* votes, reputations and ledger as they were.
C15_Atomic ==
  [][/\ \A s \in Sessions :
          CommitTx(s) =>
            /\ votes' = written(votes, tx[s].op, tx[s].rows)
            /\ appended(reputation_history, reputation_history') = tx[s].entries
            /\ Len(tx[s].entries) = Len(tx[s].rows)
            /\ reputation' = Applied(reputation, tx[s].entries)
     /\ (\A s \in Sessions : ~CommitTx(s)) => UNCHANGED dbvars]_vars

\* The number of steps named a among the first n steps of sequence st.
steps_before(st, n, a) == Cardinality({p \in 1..n : st[p] = a})

\* C16: in every insert or update of votes, a row is written right after
\* its guard check passed, the k-th score adjustment comes after the k-th
\* row write and after every guard check, a ledger append comes right after
\* its score adjustment, and a statement the guard rejected has no score
\* adjustment and no ledger append.
C16_StepOrder ==
  \A s \in Sessions :
    LET st == tx[s].steps
    IN /\ \A p \in DOMAIN st :
            /\ st[p] = "write" => (p > 1 /\ st[p - 1] = "guard")
            /\ st[p] = "adjust" =>
                 /\ steps_before(st, p, "adjust")
                      <= steps_before(st, p, "write")
                           + steps_before(st, p, "delete")
                 /\ \A q \in DOMAIN st :
                      q > p => st[q] \notin {"guard", "write", "delete"}
            /\ st[p] = "append" => (p > 1 /\ st[p - 1] = "adjust")
       /\ (\E p \in DOMAIN st : st[p] = "self_vote") =>
            \A p \in DOMAIN st : st[p] \notin {"write", "adjust", "append"}

\* A statement has gone through guard, write, adjustment and append, and a
\* statement of the other session was rejected by the guard.
C16_Witness ==
  \E s \in Sessions, t \in Sessions :
    /\ tx[s].steps = <<"guard", "write", "adjust", "append">>
    /\ tx[t].steps = <<"self_vote">>

\* C17: the profile form (username, bio, avatar) and the posting of
\* questions, answers and comments leave every reputation as it was.
C17_OtherWritesKeepScore == [][reputation' = reputation]_vars

\* A profile has been edited, a question and an answer posted and a comment
\* written.
C17_Witness ==
  /\ \E u \in Users : profiles[u].username = "new" /\ profiles[u].bio = "bio"
  /\ \E q \in QIds : questions[q] # NULL
  /\ \E a \in AIds : answers[a] # NULL
  /\ comments # {}

\* C18: when the voter of a VoteButtons instance holds a vote on its target
\* and clicks the other direction, the write that succeeds leaves the same
\* vote rows (by id) for that voter and target: no row is added.
C18_FlipInPlace ==
  [][\A c \in Comps, isUpvote \in BOOLEAN :
       LET held == own_votes(votes, props[c])
       IN (/\ held # {}
           /\ \A v \in held : v.is_upvote # isUpvote
           /\ handleVote(c, isUpvote)
           /\ last' = "ok") =>
            {v.id : v \in own_votes(votes', props[c])} = {v.id : v \in held}]_vars

\* The votes on the content of kind target_type with id target_id.
votes_on(target_type, target_id) ==
  {v \in votes : IF target_type = "question"
                   THEN v.question_id = target_id
                   ELSE v.answer_id = target_id}

\* C19: for a question or an answer, whatever the order of the votes rows,
\* get_vote_counts returns one row (u, d) with u the number of votes on the
\* content that are upvotes and d the number that are downvotes; (0, 0) when
\* the content has no votes.
C19_VoteCounts ==
  \A target_type \in {"question", "answer"}, target_id \in QIds \cup AIds :
    \A ord \in RowOrders(votes) :
      get_vote_counts(ord, target_type, target_id) =
        <<[upvotes |->
             Cardinality({v \in votes_on(target_type, target_id) : v.is_upvote}),
           downvotes |->
             Cardinality({v \in votes_on(target_type, target_id) : ~v.is_upvote})]>>

\* An answer holds an upvote and a downvote while its question has no votes.
C19_Witness ==
  \E a \in AIds :
    /\ \E v \in votes_on("answer", a) : v.is_upvote
    /\ \E v \in votes_on("answer", a) : ~v.is_upvote
    /\ votes_on("question", answer_question(a)) = {}

\* C20: a ledger trigger run for a row whose content author does not
\* resolve leaves the tables as they are, and the deletion of an answer or
\* a question, whose cascade runs the delete trigger for votes on content
\* that is gone, completes without error, changes no reputation and adds no
\* ledger entry.
C20_NoAuthorNoOp ==
  /\ \A uid \in Users, r \in VoteRows :
       vote_target_author(questions, answers, r) = NULL =>
         /\ update_reputation_on_vote(DB, uid, r) = DB
         /\ handle_vote_delete(DB, uid, r) = DB
         /\ \A b \in BOOLEAN :
              handle_vote_update(DB, uid, r, [r EXCEPT !.is_upvote = b]) = DB
  /\ \A uid \in Users, a \in AIds :
       \A ord \in RowOrders(votes_on_answers(votes, {a})) :
         LET r == delete_answer(DB, uid, a, ord)
         IN /\ r.result = "ok"
            /\ r.db.reputation = reputation
            /\ Len(r.db.reputation_history) <= Len(reputation_history)
  /\ \A uid \in Users, q \in QIds :
       \A ord \in RowOrders(votes_on_questions(votes, {q}) \cup
                            votes_on_answers(votes,
                              {a \in AIds : answer_question(a) = q})) :
         LET r == delete_question(DB, uid, q, ord)
         IN /\ r.result = "ok"
            /\ r.db.reputation = reputation
            /\ Len(r.db.reputation_history) <= Len(reputation_history)

\* An answer has just been deleted with the votes on it, its question is
\* still there.
C20_Witness ==
  /\ last = "cascade"
  /\ \E a \in AIds : answers[a] = NULL /\ questions[answer_question(a)] # NULL

\* The author the ledger trigger of row r looks up in tables db.
resolves(db, r) == vote_target_author(db.questions, db.answers, r) # NULL

\* C21: every run of a ledger trigger finds the author of the content its
\* row points to: after an insert, after an update, after a delete of votes,
\* and for the votes a deletion of an answer or a question takes with it.
C21_AuthorResolves ==
  /\ \A uid \in Users, new \in VoteRows :
       insert_vote(DB, uid, new).result = "ok" => resolves(DB, new)
  /\ \A uid \in Users, f \in Filters, set \in SetClauses :
       \A ord \in RowOrders(Visible(uid, f)) :
         update_votes(DB, uid, ord, set).result = "ok" =>
           \A i \in 1..Len(ord) : resolves(DB, ord[i])
  /\ \A uid \in Users, f \in Filters :
       \A v \in Visible(uid, f) : resolves(DB, v)
  /\ \A uid \in Users, a \in AIds :
       (answers[a] # NULL /\ answers_delete_policy(uid, answers[a])) =>
         \A v \in votes_on_answers(votes, {a}) :
           resolves(content_gone(DB, {}, {a}), v)
  /\ \A uid \in Users, q \in QIds :
       (questions[q] # NULL /\ questions_delete_policy(uid, questions[q])) =>
         LET A == {a \in AIds : answer_question(a) = q}
         IN \A v \in votes_on_questions(votes, {q}) \cup
                     votes_on_answers(votes, A) :
              resolves(content_gone(DB, {q}, A), v)

\* C22: an update of vote rows that sets is_upvote to the value every one of
\* them already has changes no reputation and appends no ledger entry.
C22_SameDirectionNoEffect ==
  \A uid \in Users, f \in Filters, b \in BOOLEAN :
    \A ord \in RowOrders(Visible(uid, f)) :
      (Len(ord) > 0 /\ \A i \in 1..Len(ord) : ord[i].is_upvote = b) =>
        LET r == update_votes(DB, uid, ord, Flip(b))
        IN /\ r.db.reputation = reputation
           /\ r.db.reputation_history = reputation_history

\* C23: a click of a signed-in user in the direction of the instance's
\* current vote (userVote) deletes the user's vote on the target; a click in
\* the other direction of an existing vote sets the direction of the rows in
\* place (no row added or removed); a click with no current vote inserts one
\* row for the user, the target and the direction; a click of a signed-out
\* visitor issues no write.
C23_HandleVoteBranches ==
  [][\A c \in Comps, isUpvote \in BOOLEAN :
       handleVote(c, isUpvote) =>
         LET p == props[c]
             own == own_votes(votes, p)
         IN IF p.user = NULL
              THEN UNCHANGED dbvars /\ last' = "auth_required"
            ELSE IF userVote[c] = dir(isUpvote)
              THEN votes' = votes \ own
            ELSE IF userVote[c] # NULL
              THEN /\ last' = "ok" =>
                        votes' = {[v EXCEPT !.is_upvote =
                                      IF v \in own THEN isUpvote ELSE @] :
                                    v \in votes}
                   /\ last' # "ok" => votes' = votes
            ELSE /\ last' = "ok" =>
                      \E w \in votes' :
                        /\ votes' = votes \cup {w}
                        /\ \A v \in votes : v.id # w.id
                        /\ w.user_id = p.user
                        /\ w[target_column(p)] = p.targetId
                        /\ w.is_upvote = isUpvote
                 /\ last' # "ok" => votes' = votes]_vars

\* An instance has inserted a vote and awaits its removal, while the other
\* instance of the user awaits the update it sent for its stale userVote.
C23_Witness ==
  \E c \in Comps, d \in Comps :
    /\ loading[c] = "set_null"
    /\ loading[d] \in {"set_true", "set_false"}
    /\ userVote[d] # NULL
    /\ Len(reputation_history) = 2

\* C24: the adjustment a ledger trigger issues reaches the profile of the
\* content's author although the statement runs in the voter's session: a
\* vote inserted, flipped or deleted by a voter who is not the author leaves
\* the author's reputation at max(1, reputation + points of the entry the
\* trigger appended).
C24_AdjustmentTakesEffect ==
  /\ \A new \in FreshVotes :
       LET r == insert_vote(DB, new.user_id, new)
           a == content_author(new)
       IN r.result = "ok" =>
            r.db.reputation[a] = Max(1, reputation[a] + points(new))
  /\ \A v \in votes :
       LET a == vote_target_author(questions, answers, v)
           flipped == update_votes(DB, v.user_id, <<v>>, Flip(~v.is_upvote))
           removed == delete_votes(DB, v.user_id, <<v>>)
           entry(r) == r.db.reputation_history[Len(r.db.reputation_history)]
       IN /\ flipped.result = "ok" =>
               flipped.db.reputation[a] =
                 Max(1, reputation[a] + entry(flipped).points)
          /\ removed.db.reputation[a] =
               Max(1, reputation[a] + entry(removed).points)

\* The votes voter u holds on the content that row r points to.
held_by(rows, u, r) ==
  {w \in rows : /\ w.user_id = u
                /\ w.question_id = r.question_id
                /\ w.answer_id = r.answer_id}

RECURSIVE sum_points(_)
sum_points(S) ==
  IF S = {} THEN 0
  ELSE LET v == CHOOSE w \in S : TRUE
       IN points(v) + sum_points(S \ {v})

\* The vote rows held on the questions and answers of author a.
held_on(a) == {v \in votes : content_author(v) = a}

\* No question and no answer has been deleted.
NoContentDeleted ==
  /\ \A q \in QIds : questions[q] # NULL
  /\ \A a \in AIds : answers[a] # NULL

\* The points of the ledger entries of account a, in ledger order.
ledger_points(a) ==
  LET es == SelectSeq(reputation_history, LAMBDA e : e.user_id = a)
  IN [i \in 1..Len(es) |-> es[i].points]

\* The sum of the first n numbers of sequence ps.
RECURSIVE prefix_sum(_, _)
prefix_sum(ps, n) == IF n = 0 THEN 0 ELSE ps[n] + prefix_sum(ps, n - 1)

\* The floor never changed a result for account a: the adjustments of its
\* ledger, made one after the other from the default, never go below 1.
NeverClamped(a) ==
  \A n \in 1..Len(ledger_points(a)) :
    reputation_default + prefix_sum(ledger_points(a), n) >= 1

\* C26: as long as no content is deleted, each author's reputation is at
\* least 1 + the sum of the table values of the votes held on the author's
\* questions and answers, and equal to it when the floor never changed a
\* result for the author.
C26_ScoreBoundsVotes ==
  NoContentDeleted =>
    \A a \in Users :
      /\ reputation[a] >= 1 + sum_points(held_on(a))
      /\ NeverClamped(a) => reputation[a] = 1 + sum_points(held_on(a))

\* The sum of the points of the ledger entries of account a.
ledger_sum(a) == prefix_sum(ledger_points(a), Len(ledger_points(a)))

\* C27: as long as no content is deleted, for each author the points of the
\* author's ledger entries add up to the sum of the table values of the
\* votes held on the author's questions and answers.
C27_LedgerSumIsVoteSum ==
  NoContentDeleted =>
    \A a \in Users : ledger_sum(a) = sum_points(held_on(a))

\* A downvote on an answer was flipped to an upvote: the ledger of the
\* author holds -2 and +12, the vote held is worth 10.
C27_Witness ==
  /\ Len(reputation_history) = 2
  /\ reputation_history[1].reason = "Answer downvoted"
  /\ reputation_history[2].reason = "Answer vote changed"
  /\ \E v \in votes : v.is_upvote /\ v.answer_id # NULL

\* Tables db differ from the present ones in account a only: every other
\* reputation is as it is, the entries the ledger has are as they are, and
\* the entries it gained are entries of a.
Frame(db, a) ==
  /\ \A u \in Users \ {a} : db.reputation[u] = reputation[u]
  /\ Len(db.reputation_history) >= Len(reputation_history)
  /\ SubSeq(db.reputation_history, 1, Len(reputation_history))
       = reputation_history
  /\ \A i \in (Len(reputation_history) + 1)..Len(db.reputation_history) :
       db.reputation_history[i].user_id = a

\* The author of the content a filter of VoteButtons names.
filter_author(f) ==
  IF f.column = "question_id" THEN questions[f.target] ELSE answers[f.target]

\* C28: an insert, an update or a delete of votes on content of author A
\* leaves the reputation of the voter and of every account other than A as
\* it was, leaves the existing ledger entries as they were and adds ledger
\* entries for A only.
C28_FrameOfVoteWrite ==
  /\ \A uid \in Users, new \in VoteRows :
       Frame(insert_vote(DB, uid, new).db,
             vote_target_author(questions, answers, new))
  /\ \A uid \in Users, f \in Filters :
       \A ord \in RowOrders(Visible(uid, f)) :
         /\ Frame(delete_votes(DB, uid, ord).db, filter_author(f))
         /\ \A set \in SetClauses :
              Frame(update_votes(DB, uid, ord, set).db, filter_author(f))

\* Votes were written on the content of two authors: the ledger holds an
\* entry for each of them, and a voter holds a vote.
C28_Witness ==
  /\ last = "ok"
  /\ votes # {}
  /\ \E i \in DOMAIN reputation_history, j \in DOMAIN reputation_history :
       reputation_history[i].user_id # reputation_history[j].user_id

\* C29: every ledger entry references a question and no answer, or an answer
\* and no question, and is recorded against the author of the content it
\* references.
C29_EntryNamesAuthorsContent ==
  \A i \in DOMAIN reputation_history :
    LET e == reputation_history[i]
    IN TargetsOne(e) /\ content_author(e) = e.user_id

\* userVote of instance c is the direction of the one vote row the user has
\* on the target, or null when the user has no row on it.
Refines(c) ==
  LET own == own_votes(votes, props[c])
  IN IF own = {}
       THEN userVote[c] = NULL
       ELSE /\ Cardinality(own) = 1
            /\ \A v \in own : userVote[c] = dir(v.is_upvote)

\* C30: in a session that is the only one writing the user's votes and whose
\* fetchUserVote completed before the first click, whenever no handleVote
\* call is in progress userVote is the direction of the user's stored vote
\* on the target, or null when there is none (also after a write that
\* failed, such as a rejected self-vote).
C30_UserVoteIsStoredVote ==
  \A c \in Comps :
    (InUse(c) /\ fetch[c] = "done" /\ loading[c] = "idle") => Refines(c)

\* The later session fetched the vote the earlier one had cast, flipped it,
\* and its handleVote call has completed.
C30_Witness ==
  /\ fetch["c1"] = "done" /\ loading["c1"] = "idle"
  /\ userVote["c2"] # NULL /\ userVote["c1"] # userVote["c2"]
  /\ \E v \in own_votes(votes, props["c1"]) :
       cast[v.id] # v.is_upvote /\ userVote["c1"] = dir(v.is_upvote)

====
